---------------------------- MODULE Spec2Model ----------------------------
(***************************************************************************)
(* Model of the mood-based song recommender (src/app.py).                  *)
(*                                                                         *)
(* Part 1: the serving-time text normalizer preprocess_text, computed on   *)
(*         texts represented as sequences of one-character strings.        *)
(* Part 2: the request handler api_predict as a step machine, one          *)
(*         position per statement group, for one or several in-flight      *)
(*         requests.                                                       *)
(***************************************************************************)
EXTENDS Integers, Sequences, FiniteSets, TLC

(***************************************************************************)
(* Bounds of the model.                                                    *)
(***************************************************************************)
\* longest text (in characters) given to the normalizer under SpecNorm
MaxLen == 5
\* longest track list the provider returns (the code asks for at most 12)
MaxTracks == 2

(***************************************************************************)
(* Part 1 - preprocess_text                                                *)
(*                                                                         *)
(* Characters of the model.  The letters are chosen so that the stemmer's  *)
(* steps 1c, 2, 3, 4 and 5b and its table of irregular forms never apply   *)
(* (none of their suffixes can be spelled with d, o, s, e), and so that    *)
(* the tokenizer's contraction rules never split a word.                   *)
(***************************************************************************)
Letters == {"d", "o", "s", "e"}
Uppers == {"D"}
Puncts == {"!"}
Space == " "
Alphabet == Letters \cup Uppers \cup Puncts \cup {Space}

\* the members of nltk's English stopword list spelled with the letters above
english_stopwords ==
    { <<"d", "o">>, <<"d", "o", "e", "s">>, <<"s", "o">>,
      <<"s">>, <<"d">>, <<"o">> }

\* str.lower, per character
LowerChar(c) == IF c = "D" THEN "d" ELSE c

Lower(text) == [i \in 1..Len(text) |-> LowerChar(text[i])]

\* str.isalnum: non-empty and every character a letter or a digit
IsAlnum(word) ==
    /\ word # <<>>
    /\ \A i \in 1..Len(word) : word[i] \in Letters \cup Uppers

Flush(acc, cur) == IF cur = <<>> THEN acc ELSE Append(acc, cur)

RECURSIVE Tok(_, _, _)
Tok(s, cur, acc) ==
    IF s = <<>> THEN Flush(acc, cur)
    ELSE LET c == Head(s) IN
         IF c = Space THEN Tok(Tail(s), <<>>, Flush(acc, cur))
         ELSE IF c \in Puncts
              THEN Tok(Tail(s), <<>>, Append(Flush(acc, cur), <<c>>))
              ELSE Tok(Tail(s), Append(cur, c), acc)

\* nltk.word_tokenize: words are split at whitespace, a punctuation mark is
\* a token of its own
word_tokenize(text) == Tok(text, <<>>, <<>>)

(***************************************************************************)
(* PorterStemmer.stem (nltk, NLTK_EXTENSIONS mode)                         *)
(***************************************************************************)
EndsWith(w, suf) ==
    /\ Len(w) >= Len(suf)
    /\ SubSeq(w, Len(w) - Len(suf) + 1, Len(w)) = suf

DropLast(w, n) == SubSeq(w, 1, Len(w) - n)

IsVowel(c) == c \in {"a", "e", "i", "o", "u"}

\* _is_consonant (no "y" in the alphabet)
IsConsonant(w, i) == ~IsVowel(w[i])

\* _measure: the number of vowel-consonant transitions
Measure(w) ==
    Cardinality({i \in 1..(Len(w) - 1) :
                    ~IsConsonant(w, i) /\ IsConsonant(w, i + 1)})

ContainsVowel(w) == \E i \in 1..Len(w) : ~IsConsonant(w, i)

EndsDoubleConsonant(w) ==
    /\ Len(w) >= 2
    /\ w[Len(w)] = w[Len(w) - 1]
    /\ IsConsonant(w, Len(w))

\* _ends_cvc, with the extension for two-letter words
EndsCVC(w) ==
    \/ /\ Len(w) >= 3
       /\ IsConsonant(w, Len(w) - 2)
       /\ ~IsConsonant(w, Len(w) - 1)
       /\ IsConsonant(w, Len(w))
       /\ w[Len(w)] \notin {"w", "x", "y"}
    \/ /\ Len(w) = 2
       /\ ~IsConsonant(w, 1)
       /\ IsConsonant(w, 2)

\* _step1a: SSES -> SS, SS -> SS, S -> ""
Step1a(w) ==
    IF EndsWith(w, <<"s", "s", "e", "s">>) THEN DropLast(w, 2)
    ELSE IF EndsWith(w, <<"s", "s">>) THEN w
    ELSE IF EndsWith(w, <<"s">>) THEN DropLast(w, 1)
    ELSE w

\* the rule list applied by _step1b once "ed" has been removed
Step1bFix(stem) ==
    IF EndsDoubleConsonant(stem)
    THEN IF stem[Len(stem)] \notin {"l", "s", "z"}
         THEN DropLast(stem, 1)
         ELSE stem
    ELSE IF Measure(stem) = 1 /\ EndsCVC(stem)
         THEN Append(stem, "e")
         ELSE stem

\* _step1b: (m>0) EED -> EE, (*v*) ED -> ""
Step1b(w) ==
    IF EndsWith(w, <<"e", "e", "d">>)
    THEN IF Measure(DropLast(w, 3)) > 0 THEN DropLast(w, 1) ELSE w
    ELSE IF EndsWith(w, <<"e", "d">>) /\ ContainsVowel(DropLast(w, 2))
         THEN Step1bFix(DropLast(w, 2))
         ELSE w

\* _step5a: a final E is removed when m > 1, or m = 1 and not *o
Step5a(w) ==
    IF EndsWith(w, <<"e">>)
    THEN LET stem == DropLast(w, 1) IN
         IF Measure(stem) > 1 THEN stem
         ELSE IF Measure(stem) = 1 /\ ~EndsCVC(stem) THEN stem
         ELSE w
    ELSE w

\* a faulty join: the tokens concatenated without the separator
JoinNoSeparator(tokens) ==
    LET F[i \in 0..Len(tokens)] ==
            IF i = 0 THEN <<>> ELSE F[i - 1] \o tokens[i]
    IN F[Len(tokens)]

\* " ".join(tokens)
Join(tokens) ==
    LET F[i \in 0..Len(tokens)] ==
            IF i = 0 THEN <<>>
            ELSE IF i = 1 THEN tokens[1]
            ELSE F[i - 1] \o <<Space>> \o tokens[i]
    IN F[Len(tokens)]

\* stemmer.stem(word): words of one or two letters are returned as they are
Stem(word) ==
    LET w == Lower(word) IN
    IF Len(w) <= 2 THEN w ELSE Step5a(Step1b(Step1a(w)))

VARIABLES
    proc,       \* process-scoped state: the frozen artifacts and the tables
    serving,    \* the process is up and answers requests
    pc,         \* per request: the position in api_predict
    request,    \* per request: the JSON body received
    frame,      \* per request: the local variables of api_predict
    raised,     \* per request: the step that raised, "" when none did
    calls,      \* per request: the collaborators invoked so far
    response,   \* per request: the response returned
    ntext, out1, out2, npc   \* the normalizer driven on its own

\* the tokens kept by the comprehension of preprocess_text
Kept(tokens) ==
    SelectSeq(tokens, LAMBDA t : IsAlnum(t) /\ t \notin proc.stop_words)

preprocess_text(text) ==
    LET tokens == word_tokenize(Lower(text))
        kept == Kept(tokens)
    IN Join([i \in 1..Len(kept) |-> Stem(kept[i])])


(***************************************************************************)
(* Part 2 - api_predict                                                    *)
(***************************************************************************)
\* the requests in flight
Clients == {"r1", "r2"}

\* Python's None, where the other values are strings
None == "None"

\* JSON values of a request field: a string, null, a number, an array, or
\* the key left out
Absent == [t |-> "absent", s |-> ""]
Null == [t |-> "null", s |-> ""]
Num == [t |-> "num", s |-> "7"]
List == [t |-> "list", s |-> ""]
Str(s) == [t |-> "str", s |-> s]

\* the message texts of the model, and their characters
MessageTexts == {"", "Dos odse!"}

Chars(s) ==
    IF s = "Dos odse!"
    THEN <<"D", "o", "s", " ", "o", "d", "s", "e", "!">>
    ELSE <<>>

\* request bodies: a body that is not JSON ("nobody": get_json raises, or
\* answers None when it is told nothing of the content type), the JSON value
\* null, a JSON number, or a JSON object with any of the three keys
Body(kind, message, language, preference) ==
    [kind |-> kind, message |-> message, language |-> language,
     preference |-> preference]

MessageValues == {Absent, Null, Num} \cup {Str(m) : m \in MessageTexts}
LanguageValues == {Absent, Str("hi"), Str("fr"), List}
PreferenceValues == {Absent, Null, Str("uplift"), Str("chill")}

Requests ==
    {Body(k, Absent, Absent, Absent) : k \in {"nobody", "null", "number"}}
    \cup {Body("object", m, l, p) :
            m \in MessageValues, l \in LanguageValues, p \in PreferenceValues}

\* the requests of the concurrent specification
ConcRequests ==
    { Body("object", Absent, Str("hi"), Absent),
      Body("object", Null, Absent, Absent),
      Body("object", Str("Dos odse!"), Absent, Str("uplift")),
      Body("object", Str(""), Str("hi"), Str("uplift")) }

\* 1. Map model output (0-5) to human-readable moods
MOOD_MAP ==
    [l \in 0..5 |->
        CASE l = 0 -> "sadness" [] l = 1 -> "joy" [] l = 2 -> "love"
          [] l = 3 -> "anger" [] l = 4 -> "fear" [] l = 5 -> "surprise"]

\* 2. search keywords for each mood
MOOD_KEYWORDS ==
    [m \in {"joy", "sadness", "anger", "love", "fear", "surprise", "uplift"} |->
        CASE m = "joy" -> "happy" [] m = "sadness" -> "sad"
          [] m = "anger" -> "angry" [] m = "love" -> "love"
          [] m = "fear" -> "dark" [] m = "surprise" -> "surprise"
          [] m = "uplift" -> "uplifting"]

\* 3. language search terms
LANGUAGE_KEYWORDS ==
    [l \in {"en", "te", "hi"} |->
        CASE l = "en" -> "english" [] l = "te" -> "telugu" [] l = "hi" -> "hindi"]

PLACEHOLDER == "https://placehold.co/100x100/222/fff?text=No+Art"

\* the labels a classifier artifact may answer: 0..5, and one out of range
Labels == 0..6

\* the frozen vocabulary of the vectorizer
Vocabulary == { <<"o", "d", "s">> }

\* vectorizer.transform([processed_text]): the terms of the text that are in
\* the frozen vocabulary; others are ignored (the vocabulary holds words of
\* two letters or more, the only ones the vectorizer's own tokens can be)
Transform(vocabulary, processed) ==
    {word_tokenize(processed)[i] : i \in 1..Len(word_tokenize(processed))}
        \cap vocabulary

\* dict.get(key, default) on a table keyed by strings or integers
Get(table, key, default) ==
    IF key \in DOMAIN table THEN table[key] ELSE default

\* data.get(key, default) on a JSON object
DataGet(value, default) == IF value.t = "absent" THEN Str(default) ELSE value

\* a faulty resolution: the uplift override applied whatever the mood
ResolveMoodAlways(mood, user_preference) ==
    IF user_preference = Str("uplift") THEN "uplift" ELSE mood

\* 3. Determine the final search keyword
ResolveMood(mood, user_preference) ==
    IF user_preference = Str("uplift") /\ mood \in {"sadness", "anger", "fear"}
    THEN "uplift"
    ELSE mood

\* a list is unhashable: LANGUAGE_KEYWORDS.get raises TypeError
Unhashable(value) == value.t = "list"

LangKeyword(table, language_choice) ==
    IF language_choice.t = "str"
    THEN Get(table, language_choice.s, "english")
    ELSE "english"

\* query = f"{mood_keyword} {lang_keyword}"
BuildQuery(mood_keyword, lang_keyword) == mood_keyword \o " " \o lang_keyword

(***************************************************************************)
(* The provider's answers: a dictionary with or without the "tracks" key,  *)
(* and under it a list of tracks.                                          *)
(***************************************************************************)
Track(id, name, artists, images, preview_url, spotify_url) ==
    [id |-> id, name |-> name, artists |-> artists, images |-> images,
     preview_url |-> preview_url, spotify_url |-> spotify_url]

TrackPool ==
    { Track("t1", "n1", <<"a1", "b1">>, <<"img1", "img1s">>, "p1", "u1"),
      Track("t2", "n2", <<"a2">>, <<>>, None, "u2"),
      Track("t3", "n3", <<>>, <<"img3">>, "p3", "u3") }

TrackLists(n) == UNION {[1..k -> TrackPool] : k \in 0..n}

Results(has_tracks, items) == [has_tracks |-> has_tracks, items |-> items]

ProviderResults ==
    {Results(TRUE, items) : items \in TrackLists(MaxTracks)}
    \cup {Results(FALSE, <<>>)}

ConcResults ==
    {Results(TRUE, items) : items \in TrackLists(1)}

\* a faulty image_url: an empty string instead of the placeholder
ImageUrlNoDefault(track) ==
    IF track.images # <<>> THEN track.images[1] ELSE ""

\* track["album"]["images"][0]["url"] if track["album"]["images"] else ...
ImageUrl(track) ==
    IF track.images # <<>> THEN track.images[1] ELSE PLACEHOLDER

\* the exception raised while a track is shaped, None when there is none:
\* track["artists"][0] of an empty artist list
TrackRaises(track) ==
    IF track.artists = <<>> THEN "list index out of range" ELSE None

\* the record appended to songs
TrackRecord(track) ==
    [id |-> track.id,
     song_name |-> track.name,
     artist |-> IF track.artists # <<>> THEN track.artists[1] ELSE None,
     image_url |-> ImageUrl(track),
     preview_url |-> track.preview_url,
     spotify_url |-> track.spotify_url]

\* jsonify({"error": ...}), status
ErrorResponse(message, status) ==
    [status |-> status, keys |-> {"error"}, error |-> message,
     mood |-> None, songs |-> <<>>]

\* jsonify({"mood": search_mood, "songs": songs})
SuccessResponse(search_mood, songs) ==
    [status |-> 200, keys |-> {"mood", "songs"}, error |-> None,
     mood |-> search_mood, songs |-> songs]

NoResponse ==
    [status |-> 0, keys |-> {}, error |-> None, mood |-> None, songs |-> <<>>]

\* the local variables of api_predict before any is assigned
NoFrame ==
    [text |-> Absent, language_choice |-> Absent, user_preference |-> Absent,
     processed_text |-> <<>>, vectorized_text |-> {}, prediction |-> -1,
     mood |-> None, search_mood |-> None, query |-> None,
     results |-> Results(FALSE, <<>>), songs |-> <<>>, i |-> 0]

hvars == <<proc, serving, pc, request, frame, raised, calls, response>>
nvars == <<ntext, out1, out2, npc>>
vars == <<proc, serving, pc, request, frame, raised, calls, response,
          ntext, out1, out2, npc>>

\* the state after the module is loaded: the artifacts are loaded, the
\* tables built, no request received
InitProc(labels) ==
    /\ proc \in
         {[model |-> m, vocabulary |-> Vocabulary,
           stop_words |-> english_stopwords, MOOD_MAP |-> MOOD_MAP,
           MOOD_KEYWORDS |-> MOOD_KEYWORDS,
           LANGUAGE_KEYWORDS |-> LANGUAGE_KEYWORDS] :
             m \in [SUBSET Vocabulary -> labels]}
    /\ serving = TRUE
    /\ pc = [r \in Clients |-> "idle"]
    /\ request = [r \in Clients |-> Body("none", Absent, Absent, Absent)]
    /\ frame = [r \in Clients |-> NoFrame]
    /\ raised = [r \in Clients |-> ""]
    /\ calls = [r \in Clients |-> {}]
    /\ response = [r \in Clients |-> NoResponse]

NormIdle ==
    /\ ntext = <<>>
    /\ out1 = <<>>
    /\ out2 = <<>>
    /\ npc = "off"

(***************************************************************************)
(* The steps of api_predict.                                               *)
(***************************************************************************)
\* `not data`: None and the empty object are falsy
Falsy(q) ==
    \/ q.kind \in {"nobody", "null"}
    \/ /\ q.kind = "object"
       /\ q.message = Absent /\ q.language = Absent /\ q.preference = Absent

\* a faulty validation: the test of the key left out
MissingMessageFalsyOnly(q) == Falsy(q)

\* if not data or "message" not in data
MissingMessage(q) == Falsy(q) \/ q.message = Absent

\* a faulty except clause: the answer carries the songs built so far
FailurePartial(f, message) ==
    [status |-> 500, keys |-> {"error", "songs"}, error |-> message,
     mood |-> None, songs |-> f.songs]

\* except Exception as e: return jsonify({"error": str(e)}), 500
Failure(f, message) == ErrorResponse(message, 500)

\* the except clause, entered from `step` of request r
Caught(r, step, message) ==
    /\ response' = [response EXCEPT ![r] = Failure(frame[r], message)]
    /\ raised' = [raised EXCEPT ![r] = step]
    /\ pc' = [pc EXCEPT ![r] = "done"]
    /\ UNCHANGED serving

\* the messages of the exceptions of the collaborators
AttributeErrorOf(value) ==
    CASE value.t = "null" -> "'NoneType' object has no attribute 'lower'"
      [] value.t = "num" -> "'int' object has no attribute 'lower'"
      [] OTHER -> "'list' object has no attribute 'lower'"

\* 1. Get user input from the JSON payload
Receive(r, q) ==
    /\ serving
    /\ pc[r] = "idle"
    /\ request' = [request EXCEPT ![r] = q]
    /\ UNCHANGED <<proc, calls, nvars>>
    /\ \/ /\ q.kind = "nobody"
          \* request.get_json() raises for a body that is not JSON
          /\ Caught(r, "get_json", "400 Bad Request: Failed to decode JSON object")
          /\ UNCHANGED frame
       \/ /\ q.kind = "number"
          \* "message" in 7
          /\ Caught(r, "validate", "argument of type 'int' is not iterable")
          /\ UNCHANGED frame
       \/ /\ q.kind # "number"
          /\ MissingMessage(q)
          /\ response' = [response EXCEPT ![r] =
                 ErrorResponse("Invalid request. 'message' is required.", 400)]
          /\ pc' = [pc EXCEPT ![r] = "done"]
          /\ UNCHANGED <<frame, raised, serving>>
       \/ /\ q.kind = "object"
          /\ ~MissingMessage(q)
          /\ frame' = [frame EXCEPT
                 ![r].text = IF q.message = Absent THEN Null ELSE q.message,
                 ![r].language_choice = DataGet(q.language, "en"),
                 ![r].user_preference = DataGet(q.preference, "match")]
          /\ pc' = [pc EXCEPT ![r] = "preprocess"]
          /\ UNCHANGED <<response, raised, serving>>

\* processed_text = preprocess_text(text)
Preprocess(r) ==
    /\ serving
    /\ pc[r] = "preprocess"
    /\ calls' = [calls EXCEPT ![r] = @ \cup {"normalizer"}]
    /\ UNCHANGED <<proc, request, nvars>>
    /\ IF frame[r].text.t # "str"
       THEN /\ Caught(r, "preprocess", AttributeErrorOf(frame[r].text))
            /\ UNCHANGED frame
       ELSE /\ frame' = [frame EXCEPT ![r].processed_text =
                            preprocess_text(Chars(frame[r].text.s))]
            /\ pc' = [pc EXCEPT ![r] = "vectorize"]
            /\ UNCHANGED <<response, raised, serving>>

\* vectorized_text = vectorizer.transform([processed_text])
Vectorize(r) ==
    /\ serving
    /\ pc[r] = "vectorize"
    /\ calls' = [calls EXCEPT ![r] = @ \cup {"vectorizer"}]
    /\ UNCHANGED <<proc, request, nvars>>
    /\ \/ /\ Caught(r, "vectorize", "vectorizer failure")
          /\ UNCHANGED frame
       \/ /\ frame' = [frame EXCEPT ![r].vectorized_text =
                          Transform(proc.vocabulary, frame[r].processed_text)]
          /\ pc' = [pc EXCEPT ![r] = "predict"]
          /\ UNCHANGED <<response, raised, serving>>

\* a faulty prediction step: the mood kept in a variable shared by the
\* requests in flight
PredictShared(r) ==
    /\ serving
    /\ pc[r] = "predict"
    /\ calls' = [calls EXCEPT ![r] = @ \cup {"classifier"}]
    /\ UNCHANGED <<proc, request, nvars>>
    /\ LET prediction == proc.model[frame[r].vectorized_text] IN
       /\ frame' = [c \in Clients |->
              IF c = r
              THEN [frame[c] EXCEPT !.prediction = prediction,
                                    !.mood = Get(proc.MOOD_MAP, prediction, "joy")]
              ELSE [frame[c] EXCEPT
                                    !.mood = Get(proc.MOOD_MAP, prediction, "joy")]]
       /\ pc' = [pc EXCEPT ![r] = "build_query"]
       /\ UNCHANGED <<response, raised, serving>>

\* prediction = model.predict(vectorized_text)[0]
\* mood = MOOD_MAP.get(prediction, "joy")
Predict(r) ==
    /\ serving
    /\ pc[r] = "predict"
    /\ calls' = [calls EXCEPT ![r] = @ \cup {"classifier"}]
    /\ UNCHANGED <<proc, request, nvars>>
    /\ \/ /\ Caught(r, "predict", "classifier failure")
          /\ UNCHANGED frame
       \/ LET prediction == proc.model[frame[r].vectorized_text] IN
          /\ frame' = [frame EXCEPT
                 ![r].prediction = prediction,
                 ![r].mood = Get(proc.MOOD_MAP, prediction, "joy")]
          /\ pc' = [pc EXCEPT ![r] = "build_query"]
          /\ UNCHANGED <<response, raised, serving>>

\* 3. Determine the final search keyword, 4. Build the search query
Resolve(r) ==
    /\ serving
    /\ pc[r] = "build_query"
    /\ UNCHANGED <<proc, request, calls, nvars>>
    /\ LET search_mood == ResolveMood(frame[r].mood, frame[r].user_preference)
           mood_keyword == Get(proc.MOOD_KEYWORDS, search_mood, "happy")
       IN IF Unhashable(frame[r].language_choice)
          THEN /\ Caught(r, "build_query", "unhashable type: 'list'")
               /\ frame' = [frame EXCEPT ![r].search_mood = search_mood]
          ELSE /\ frame' = [frame EXCEPT
                      ![r].search_mood = search_mood,
                      ![r].query =
                          BuildQuery(mood_keyword,
                                     LangKeyword(proc.LANGUAGE_KEYWORDS,
                                                 frame[r].language_choice))]
               /\ pc' = [pc EXCEPT ![r] = "search"]
               /\ UNCHANGED <<response, raised, serving>>

\* 5. results = sp.search(q=query, type="track", limit=12, market="IN")
Search(r, answer) ==
    /\ serving
    /\ pc[r] = "search"
    /\ calls' = [calls EXCEPT ![r] = @ \cup {"provider"}]
    /\ UNCHANGED <<proc, request, nvars>>
    /\ \/ /\ Caught(r, "search", "provider failure")
          /\ UNCHANGED frame
       \/ /\ frame' = [frame EXCEPT ![r].results = answer,
                                    ![r].songs = <<>>,
                                    ![r].i = 0]
          /\ pc' = [pc EXCEPT ![r] = "shape"]
          /\ UNCHANGED <<response, raised, serving>>

\* a faulty loop body: only the tracks with a preview are kept
AppendedIfPreview(songs, track) ==
    IF track.preview_url # None THEN Append(songs, TrackRecord(track)) ELSE songs

\* songs.append({...})
Appended(songs, track) == Append(songs, TrackRecord(track))

\* 6. one turn of `for track in results["tracks"]["items"]`
ShapeTrack(r) ==
    /\ serving
    /\ pc[r] = "shape"
    /\ UNCHANGED <<proc, request, calls, nvars>>
    /\ \/ /\ ~frame[r].results.has_tracks
          /\ Caught(r, "shape", "'tracks'")
          /\ UNCHANGED frame
       \/ /\ frame[r].results.has_tracks
          /\ frame[r].i < Len(frame[r].results.items)
          /\ LET track == frame[r].results.items[frame[r].i + 1] IN
             IF TrackRaises(track) # None
             THEN /\ Caught(r, "shape", TrackRaises(track))
                  /\ UNCHANGED frame
             ELSE /\ frame' = [frame EXCEPT
                         ![r].songs = Appended(frame[r].songs, track),
                         ![r].i = frame[r].i + 1]
                  /\ UNCHANGED <<pc, response, raised, serving>>

\* return jsonify({"mood": search_mood, "songs": songs})
Respond(r) ==
    /\ serving
    /\ pc[r] = "shape"
    /\ frame[r].results.has_tracks
    /\ frame[r].i = Len(frame[r].results.items)
    /\ response' = [response EXCEPT ![r] =
           SuccessResponse(frame[r].search_mood, frame[r].songs)]
    /\ pc' = [pc EXCEPT ![r] = "done"]
    /\ UNCHANGED <<proc, serving, request, frame, raised, calls, nvars>>

Init == InitProc(Labels) /\ NormIdle

\* one request at a time, every request body and provider answer
Next ==
    \E r \in {"r1"} :
        \/ \E q \in Requests : Receive(r, q)
        \/ Preprocess(r)
        \/ Vectorize(r)
        \/ Predict(r)
        \/ Resolve(r)
        \/ \E answer \in ProviderResults : Search(r, answer)
        \/ ShapeTrack(r)
        \/ Respond(r)

Spec == Init /\ [][Next]_vars

InitConc == InitProc({0, 1}) /\ NormIdle

\* the requests of all clients in flight together, their steps interleaved
NextConc ==
    \E r \in Clients :
        \/ \E q \in ConcRequests : Receive(r, q)
        \/ Preprocess(r)
        \/ Vectorize(r)
        \/ Predict(r)
        \/ Resolve(r)
        \/ \E answer \in ConcResults : Search(r, answer)
        \/ ShapeTrack(r)
        \/ Respond(r)

SpecConc == InitConc /\ [][NextConc]_vars

(***************************************************************************)
(* The normalizer on its own: texts of at most MaxLen characters.          *)
(***************************************************************************)
Texts(n) == UNION {[1..k -> Alphabet] : k \in 0..n}

InitNorm ==
    /\ InitProc({0})
    /\ ntext \in Texts(MaxLen)
    /\ out1 = <<>>
    /\ out2 = <<>>
    /\ npc = "input"

\* processed = preprocess_text(text)
NormalizeOnce ==
    /\ npc = "input"
    /\ out1' = preprocess_text(ntext)
    /\ npc' = "once"
    /\ UNCHANGED <<ntext, out2, hvars>>

\* preprocess_text applied to its own output
NormalizeTwice ==
    /\ npc = "once"
    /\ out2' = preprocess_text(out1)
    /\ npc' = "twice"
    /\ UNCHANGED <<ntext, out1, hvars>>

NextNorm == NormalizeOnce \/ NormalizeTwice

SpecNorm == InitNorm /\ [][NextNorm]_vars
(***************************************************************************)
(* Properties                                                              *)
(***************************************************************************)
Done(r) == pc[r] = "done"

Succeeded(r) == Done(r) /\ response[r].status = 200

\* the steps 3 and 4 have acted for r: search_mood has been assigned
Resolved(r) == frame[r].search_mood # None

SixMoods == {"sadness", "joy", "love", "anger", "fear", "surprise"}

\* C1: for every mood of the classifier mapping and every preference value,
\* the effective search mood is the mood or "uplift", and it is "uplift"
\* exactly when the preference is "uplift" and the mood is sadness, anger
\* or fear; otherwise it is the mood unchanged.
C1_EffectiveMood ==
    \A r \in Clients :
        Resolved(r) =>
            LET m == frame[r].mood
                p == DataGet(request[r].preference, "match")
                s == frame[r].search_mood
            IN /\ m = Get(MOOD_MAP, frame[r].prediction, "joy")
               /\ s \in {m, "uplift"}
               /\ (s = "uplift") <=>
                      (p = Str("uplift") /\ m \in {"sadness", "anger", "fear"})
               /\ (s # "uplift") => (s = m)

\* the override has applied to a fear under the preference "uplift"
C1_Witness ==
    /\ Resolved("r1")
    /\ request["r1"].preference = Str("uplift")
    /\ frame["r1"].mood = "fear"
    /\ frame["r1"].search_mood = "uplift"

\* the keyword the claim gives for a language value
ClaimedLangKeyword(language) ==
    IF language.t = "str" /\ language.s \in DOMAIN LANGUAGE_KEYWORDS
    THEN LANGUAGE_KEYWORDS[language.s]
    ELSE "english"

\* C2 (as stated): for every effective search mood and every language value
\* the caller can supply, query building does not fail the request and
\* yields "<moodKeyword> <languageKeyword>", both keywords non-empty, "happy"
\* for an unmapped mood and "english" for an unmapped language.
C2_QueryNeverFails ==
    \A r \in Clients :
        Resolved(r) =>
            LET mk == Get(MOOD_KEYWORDS, frame[r].search_mood, "happy")
                lk == ClaimedLangKeyword(DataGet(request[r].language, "en"))
            IN /\ raised[r] # "build_query"
               /\ mk # "" /\ lk # ""
               /\ frame[r].query = mk \o " " \o lk

\* a message field that is not a non-empty string, or no message at all
InvalidMessage(q) ==
    \/ q.kind # "object"
    \/ q.message.t # "str"
    \/ q.message.s = ""

\* C3 (as stated): every request whose message is missing or invalid (absent
\* body, absent key, null, a number, "") is answered with status 400 and an
\* object {error}; never with status 500 or a success response.
C3_InvalidMessageIs400 ==
    \A r \in Clients :
        (Done(r) /\ InvalidMessage(request[r])) =>
            /\ response[r].status = 400
            /\ response[r].keys = {"error"}

\* the request has no message field
NoMessageField(q) == q.kind # "object" \/ q.message = Absent

\* C4: for a request without a message field the response is produced
\* before any pipeline step: the normalizer, the vectorizer, the classifier
\* and the provider search are never invoked for it, the answer is an error
\* object, and for a JSON null or object body it is the validation error
\* (status 400).
C4_NoPipelineWithoutMessage ==
    \A r \in Clients :
        (pc[r] # "idle" /\ NoMessageField(request[r])) =>
            /\ calls[r] = {}
            /\ Done(r)
            /\ response[r].keys = {"error"}
            /\ request[r].kind \in {"null", "object"} =>
                   response[r] =
                       ErrorResponse("Invalid request. 'message' is required.", 400)

\* an object with a language but no message has been answered
C4_Witness ==
    /\ request["r1"] = Body("object", Absent, Str("hi"), Absent)
    /\ Done("r1")
    /\ response["r1"].status = 400
    /\ calls["r1"] = {}

\* the message of the exception raised by a step of r
RaisedMessage(r) ==
    CASE raised[r] = "vectorize" -> "vectorizer failure"
      [] raised[r] = "predict" -> "classifier failure"
      [] raised[r] = "search" -> "provider failure"
      [] raised[r] = "shape" ->
            IF frame[r].results.has_tracks
            THEN "list index out of range"
            ELSE "'tracks'"
      [] OTHER -> None

\* C5: when vectorization, classification, the provider call or the reading
\* of the provider response raises, the response is exactly {error: message}
\* with status 500: no mood, no songs, no part of the tracks already shaped.
C5_FailureIsError500 ==
    \A r \in Clients :
        (Done(r) /\ raised[r] \in {"vectorize", "predict", "search", "shape"}) =>
            /\ response[r].status = 500
            /\ response[r].keys = {"error"}
            /\ response[r].error = RaisedMessage(r)
            /\ response[r].mood = None
            /\ response[r].songs = <<>>

\* the reading of the provider response raised after a track had been shaped
C5_Witness ==
    /\ Done("r1")
    /\ raised["r1"] = "shape"
    /\ frame["r1"].songs # <<>>
    /\ response["r1"].status = 500
    /\ response["r1"].songs = <<>>

\* the expected response mood of a request, from its own body and the
\* frozen artifacts alone
OwnMood(r) ==
    ResolveMood(
        Get(MOOD_MAP,
            proc.model[Transform(Vocabulary,
                                 preprocess_text(Chars(request[r].message.s)))],
            "joy"),
        DataGet(request[r].preference, "match"))

\* the state part of C6
Isolated ==
    /\ serving
    /\ proc.MOOD_MAP = MOOD_MAP
    /\ proc.MOOD_KEYWORDS = MOOD_KEYWORDS
    /\ proc.LANGUAGE_KEYWORDS = LANGUAGE_KEYWORDS
    /\ proc.stop_words = english_stopwords
    /\ \A r \in Clients :
           Succeeded(r) =>
               /\ response[r].mood = OwnMood(r)
               /\ Len(response[r].songs) = Len(frame[r].results.items)
               /\ \A i \in 1..Len(response[r].songs) :
                      response[r].songs[i].id = frame[r].results.items[i].id
    /\ \A a, b \in Clients :
           ( /\ Done(a) /\ Done(b)
             /\ request[a] = request[b]
             /\ raised[a] = raised[b]
             /\ frame[a].results = frame[b].results )
           => response[a] = response[b]

\* C6: request handling is isolated and stateless: under any interleaving
\* of the requests in flight no step writes the process-scoped state, a
\* failing request leaves the process serving, and the response to each
\* request is the one its own body, the frozen artifacts and its own
\* provider answer determine, whatever the other requests do.
C6_Isolation ==
    /\ []Isolated
    /\ [][proc' = proc /\ serving']_vars

\* one request has failed, and another, in flight with it, has been answered
\* with the overridden mood afterwards
C6_Witness ==
    /\ Done("r1") /\ response["r1"].status = 500
    /\ Succeeded("r2")
    /\ response["r2"].mood = "uplift"
    /\ calls["r1"] # {}

\* C7: in every successful response the songs list has one record per track
\* of the provider's list, in the provider's order: the i-th song is built
\* from the i-th track (id, name, first artist's name, preview URL, external
\* URL); no track is dropped, duplicated or moved.
C7_SongsFollowProvider ==
    \A r \in Clients :
        Succeeded(r) =>
            LET items == frame[r].results.items
                songs == response[r].songs
            IN /\ Len(songs) = Len(items)
               /\ \A i \in 1..Len(items) :
                      /\ i <= Len(songs)
                      /\ songs[i].id = items[i].id
                      /\ songs[i].song_name = items[i].name
                      /\ items[i].artists # <<>>
                      /\ songs[i].artist = items[i].artists[1]
                      /\ songs[i].preview_url = items[i].preview_url
                      /\ songs[i].spotify_url = items[i].spotify_url

\* a successful response to a provider answer of two different tracks
C7_Witness ==
    /\ Succeeded("r1")
    /\ Len(frame["r1"].results.items) = 2
    /\ frame["r1"].results.items[1].id = "t2"
    /\ frame["r1"].results.items[2].id = "t1"
    /\ response["r1"].songs[1].artist = "a2"
    /\ response["r1"].songs[2].artist = "a1"

\* the track has the fields the record cannot be built without
WellFormed(track) == track.artists # <<>>

\* C8: a track whose artwork or preview is missing never fails the request
\* and is never dropped: image_url is the placeholder when the artwork is
\* absent and is never empty in a successful response, and the other fields
\* come from the track.
C8_MissingOptionalFields ==
    \A r \in Clients :
        LET items == frame[r].results.items IN
        /\ (Done(r) /\ raised[r] = "shape" /\ frame[r].results.has_tracks) =>
               \E i \in 1..Len(items) : ~WellFormed(items[i])
        /\ Succeeded(r) =>
               /\ Len(response[r].songs) = Len(items)
               /\ \A i \in 1..Len(items) :
                      LET song == response[r].songs[i] IN
                      /\ song.image_url # ""
                      /\ song.image_url # None
                      /\ (items[i].images = <<>>) => (song.image_url = PLACEHOLDER)
                      /\ (items[i].images # <<>>) => (song.image_url = items[i].images[1])
                      /\ song.id = items[i].id
                      /\ song.song_name = items[i].name
                      /\ song.spotify_url = items[i].spotify_url

\* a track without artwork and without preview is in a successful response
C8_Witness ==
    /\ Succeeded("r1")
    /\ \E i \in 1..Len(frame["r1"].results.items) :
           /\ frame["r1"].results.items[i].images = <<>>
           /\ frame["r1"].results.items[i].preview_url = None
           /\ response["r1"].songs[i].image_url = PLACEHOLDER
           /\ response["r1"].songs[i].preview_url = None
           /\ response["r1"].songs[i].id = frame["r1"].results.items[i].id

\* C9 (as stated): in every successful response the mood field is the mood
\* predicted by the classifier, one of the six categories, for every
\* preference value.
C9_MoodIsPredicted ==
    \A r \in Clients :
        Succeeded(r) =>
            /\ response[r].mood = frame[r].mood
            /\ response[r].mood \in SixMoods

\* the precondition of the idempotence property: only lowercase alphanumeric
\* tokens, none of them a stopword
CleanText(text) ==
    /\ \A i \in 1..Len(text) : text[i] \in Letters \cup {Space}
    /\ \A i \in 1..Len(word_tokenize(text)) :
           word_tokenize(text)[i] \notin english_stopwords

\* every token's stem is not a stopword and is left unchanged by the stemmer
StableStems(text) ==
    \A i \in 1..Len(word_tokenize(text)) :
        LET s == Stem(word_tokenize(text)[i]) IN
        s \notin english_stopwords /\ Stem(s) = s

\* C10 (as stated): for any text made only of lowercase alphanumeric tokens
\* that are not stopwords, normalizing the normalizer's output gives that
\* output again.
C10_Idempotent ==
    (npc = "twice" /\ CleanText(ntext)) => out2 = out1

\* C10 (amended): for any text made only of lowercase alphanumeric tokens
\* that are not stopwords and whose stems are not stopwords and are left
\* unchanged by a second stemming, normalizing the normalizer's output
\* gives that output again.
C10_IdempotentOnStableStems ==
    (npc = "twice" /\ CleanText(ntext) /\ StableStems(ntext)) => out2 = out1

\* a clean text of two tokens, one of them changed by the stemmer, both
\* stems stable, has been normalized twice
C10_Witness ==
    /\ npc = "twice"
    /\ CleanText(ntext)
    /\ StableStems(ntext)
    /\ Len(word_tokenize(ntext)) = 2
    /\ \E i \in 1..2 : Stem(word_tokenize(ntext)[i]) # word_tokenize(ntext)[i]
    /\ out2 = out1
=============================================================================
